---- MODULE Spec2Model ----
(***************************************************************************)
(* A model of src/poetry/poetry.py: the Poetry facade.                     *)
(*                                                                         *)
(* State: the local filesystem (manifests, lock files, configuration       *)
(* files), the host Python version, the Poetry object the caller holds,    *)
(* the outcome of the last call and the I/O the last call performed.       *)
(* Operations: Poetry.create, Poetry.locate, Poetry.check,                 *)
(* Poetry.create_legacy_repository and Poetry.set_config.                  *)
(*                                                                         *)
(* Collaborators that live outside poetry.py (Config.merge,                *)
(* validate_object, parse_single_constraint, Version, add_dependency,      *)
(* Dependency, get_http_basic_auth) are modelled from the specification;   *)
(* the names the file uses without importing them (shutil, Dependency,     *)
(* CONFIG_DIR, validate_object, get_http_basic_auth) are taken to be the   *)
(* collaborators they name, and check to return the result it builds.      *)
(* Manifest fields that create copies through verbatim and no property     *)
(* below reads (description, license, readme, build, include, ...) are     *)
(* left out of the Package record.                                         *)
(***************************************************************************)
EXTENDS Integers, Sequences, FiniteSets, TLC

VARIABLES
    fs,       \* the filesystem: a function from the paths of existing files to their contents
    env,      \* the marker environment of the host: its python_version string
    poetry,   \* the Poetry object the caller holds (None before a successful create)
    result,   \* what the last call returned or raised
    log       \* the filesystem and collaborator accesses of the last call, in order

vars == <<fs, env, poetry, result, log>>

(***************************************************************************)
(* Bounds of the model.                                                    *)
(***************************************************************************)
MaxDepth == 2       \* deepest directory below the root
MaxManifests == 2   \* manifests present in the tree
MaxEntries == 2     \* entries of a dependency table
MaxList == 2        \* constraints of a list-valued entry
MaxReqs == 2        \* names listed under one extra

(***************************************************************************)
(* Paths.  A directory is the sequence of its components below the root;   *)
(* a file is a directory and a file name.                                  *)
(***************************************************************************)
RootDir == <<>>

\* The per-user configuration directory (CONFIG_DIR), outside the project tree.
CONFIG_DIR == <<"~", ".config", "pypoetry">>

\* Directory names: "a" has subdirectories, "b" is a sibling without any.
RECURSIVE DirsUpTo(_)
DirsUpTo(n) ==
    IF n = 0 THEN {RootDir}
    ELSE LET below == DirsUpTo(n - 1)
             spine == {d \in below : Len(d) = n - 1 /\ \A i \in 1..Len(d) : d[i] = "a"}
         IN  below \cup {Append(d, x) : d \in spine, x \in {"a", "b"}}

Dirs == DirsUpTo(MaxDepth)

\* path / name
Join(path, name) == [dir |-> path, name |-> name]

\* Path(cwd).parents: the ancestors, nearest first, the root last.
parents(cwd) == [i \in 1..Len(cwd) |-> SubSeq(cwd, 1, Len(cwd) - i)]

\* PurePath.stem of the file names this program handles.
Stem(name) ==
    CASE name = "pyproject.toml" -> "pyproject"
      [] name = "poetry.toml" -> "poetry"
      [] name = "poetry.lock" -> "poetry"
      [] OTHER -> name

\* poetry_file.with_suffix(suffix)
with_suffix(file, suffix) == [file EXCEPT !.name = Stem(file.name) \o suffix]

\* path.exists()
exists(fsys, file) == file \in DOMAIN fsys

\* One entry of the access log.
Event(op, file) == [op |-> op, file |-> file]

None == [kind |-> "None"]

(***************************************************************************)
(* Poetry.locate (lines 219-235).                                          *)
(***************************************************************************)
\* Variant of candidates: the root first, the starting directory last.
candidatesRootFirst(cwd) ==
    LET c == <<cwd>> \o parents(cwd) IN [i \in 1..Len(c) |-> c[Len(c) + 1 - i]]

\* lines 221-222
candidates(cwd) == <<cwd>> \o parents(cwd)

\* lines 224-235: the loop over candidates from position i on.  The value is
\* the file found (or None) and the existence probes made on the way.
RECURSIVE LocateFrom(_, _, _, _)
LocateFrom(fsys, cands, i, probes) ==
    IF i > Len(cands)
    THEN [found |-> FALSE, poetry_file |-> None, probes |-> probes]
    ELSE LET poetry_file == Join(cands[i], "pyproject.toml")
             seen == Append(probes, Event("exists", poetry_file))
         IN  IF exists(fsys, poetry_file)
             THEN [found |-> TRUE, poetry_file |-> poetry_file, probes |-> seen]
             ELSE LocateFrom(fsys, cands, i + 1, seen)

locate(fsys, cwd) == LocateFrom(fsys, candidates(cwd), 1, <<>>)

\* lines 231-235
NotFoundMessage(cwd) ==
    <<"Poetry could not find a pyproject.toml file in ", cwd, " or its parents">>

RuntimeError(message) == [kind |-> "RuntimeError", message |-> message]

(***************************************************************************)
(* The manifest.  A parsed pyproject.toml is a record: whether it has the  *)
(* "tool" table, whether that table has "poetry", and the [tool.poetry]    *)
(* section (local_config): the set of its keys and their values.  A        *)
(* dependency table is the sequence of its entries in declared order; an   *)
(* entry's constraint is a scalar or a list of constraints; a constraint   *)
(* is a version string or an inline table.                                 *)
(***************************************************************************)
Str(version) == [kind |-> "str", keys |-> {}, version |-> version, python |-> ""]

Table(keys, version, python) ==
    [kind |-> "table", keys |-> keys, version |-> version, python |-> python]

Scalar(c) == [islist |-> FALSE, items |-> <<c>>]

List(cs) == [islist |-> TRUE, items |-> cs]

\* str.lower() on the dependency names of the model.
Lower(name) ==
    CASE name = "Python" -> "python"
      [] name = "PYTHON" -> "python"
      [] OTHER -> name

(***************************************************************************)
(* Collaborators, modelled from the specification.                         *)
(***************************************************************************)
\* validate_object(config, "poetry-schema"): one error per missing required
\* field, in the schema's order.
RequiredFields == <<"name", "version", "authors">>

RECURSIVE MissingFrom(_, _)
MissingFrom(keys, i) ==
    IF i > Len(RequiredFields) THEN <<>>
    ELSE (IF RequiredFields[i] \in keys
          THEN <<>>
          ELSE <<"'" \o RequiredFields[i] \o "' is a required property">>)
         \o MissingFrom(keys, i + 1)

validate_object(config) == MissingFrom(config.keys, 1)

\* Version.parse on the python_version strings of the model: <<major, minor>>.
VersionParse(text) ==
    CASE text = "2.7" -> <<2, 7>>
      [] text = "3.0" -> <<3, 0>>
      [] text = "3.9" -> <<3, 9>>

VersionLess(v, w) == v[1] < w[1] \/ (v[1] = w[1] /\ v[2] < w[2])

\* parse_single_constraint on the constraint expressions of the model.
parse_single_constraint(text) ==
    CASE text = "<3.0" -> [op |-> "<", version |-> VersionParse("3.0")]
      [] text = ">=3.0" -> [op |-> ">=", version |-> VersionParse("3.0")]

\* constraint.allows(version)
allows(constraint, version) ==
    CASE constraint.op = "<" -> VersionLess(version, constraint.version)
      [] constraint.op = ">=" -> ~VersionLess(version, constraint.version)

\* Dependency(name, constraint, category=...)
Dependency(name, constraint, category) ==
    [name |-> name, constraint |-> constraint, category |-> category,
     in_extras |-> <<>>]

\* ProjectPackage(name, version, version)
ProjectPackage(name, version, pretty_version) ==
    [name |-> name, version |-> version, pretty_version |-> pretty_version,
     root_dir |-> RootDir, authors |-> <<>>, python_versions |-> Scalar(Str("*")),
     requires |-> <<>>, extras |-> <<>>]

\* package.add_dependency(name, constraint, category)
add_dependency(package, name, constraint, category) ==
    [package EXCEPT !.requires = Append(@, Dependency(name, constraint, category))]

(***************************************************************************)
(* Poetry.check (lines 237-246), as create calls it (strict = False).      *)
(***************************************************************************)
check(config) == [errors |-> <<>> \o validate_object(config), warnings |-> <<>>]

(***************************************************************************)
(* Poetry.create, lines 67-81: the section and the validity of the         *)
(* manifest.                                                               *)
(***************************************************************************)
\* Variant of SectionMissing: only the tool table is looked for.
SectionMissingToolOnly(document) == ~document.tool

\* line 68
SectionMissing(document) == ~document.tool \/ ~document.poetry

\* lines 69-71
SectionMessage(poetry_file) ==
    <<"[tool.poetry] section not found in ", poetry_file.name>>

\* Variant of InvalidMessage: only the first error is reported.
InvalidMessageFirstOnly(errors) ==
    <<"The Poetry configuration is invalid:\n">> \o <<"  - ", errors[1], "\n">>

\* lines 77-81: the message, as the sequence of the pieces concatenated.
RECURSIVE ErrorLines(_, _)
ErrorLines(errors, i) ==
    IF i > Len(errors) THEN <<>>
    ELSE <<"  - ", errors[i], "\n">> \o ErrorLines(errors, i + 1)

InvalidMessage(errors) ==
    <<"The Poetry configuration is invalid:\n">> \o ErrorLines(errors, 1)

(***************************************************************************)
(* Poetry.create, lines 83-154: the package.                               *)
(***************************************************************************)
\* lines 84-90
BasePackage(local_config, poetry_file) ==
    [ProjectPackage(local_config.name, local_config.version, local_config.version)
        EXCEPT !.root_dir = poetry_file.dir, !.authors = local_config.authors]

\* name.lower() == "python" (line 116)
IsPython(name) == Lower(name) = "python"

\* lines 121-122: one Dependency per constraint of a list-valued entry
RECURSIVE AddEach(_, _, _, _)
AddEach(package, name, constraints, i) ==
    IF i > Len(constraints) THEN package
    ELSE AddEach(add_dependency(package, name, constraints[i], "main"),
                 name, constraints, i + 1)

\* lines 115-126: the entries of the dependencies table from position i on
RECURSIVE DependenciesFrom(_, _, _)
DependenciesFrom(package, items, i) ==
    IF i > Len(items) THEN package
    ELSE LET name == items[i].name
             constraint == items[i].constraint
         IN  IF IsPython(name)
             THEN DependenciesFrom([package EXCEPT !.python_versions = constraint],
                                   items, i + 1)
             ELSE IF constraint.islist
             THEN DependenciesFrom(AddEach(package, name, constraint.items, 1),
                                   items, i + 1)
             ELSE DependenciesFrom(
                      add_dependency(package, name, constraint.items[1], "main"),
                      items, i + 1)

\* lines 114-126
LoadDependencies(package, local_config) ==
    IF "dependencies" \in local_config.keys
    THEN DependenciesFrom(package, local_config.dependencies, 1)
    ELSE package

\* 'python' in _constraint (line 135): a key of an inline table, a substring
\* of a string; no version string of the model contains "python".
HasPython(constraint) ==
    IF constraint.kind = "table" THEN "python" \in constraint.keys ELSE FALSE

\* Variant of DevSkipped: no entry is filtered.
DevSkippedNever(constraint, env_python_version) == FALSE

\* lines 135-138: the entry is skipped
DevSkipped(constraint, env_python_version) ==
    /\ HasPython(constraint)
    /\ ~allows(parse_single_constraint(constraint.python), env_python_version)

\* lines 134-139
RECURSIVE AddEachDev(_, _, _, _, _)
AddEachDev(package, name, constraints, i, env_python_version) ==
    IF i > Len(constraints) THEN package
    ELSE IF DevSkipped(constraints[i], env_python_version)
    THEN AddEachDev(package, name, constraints, i + 1, env_python_version)
    ELSE AddEachDev(add_dependency(package, name, constraints[i], "dev"),
                    name, constraints, i + 1, env_python_version)

\* lines 131-139: the entries of the dev-dependencies table from position i on
RECURSIVE DevDependenciesFrom(_, _, _, _)
DevDependenciesFrom(package, items, i, env_python_version) ==
    IF i > Len(items) THEN package
    ELSE DevDependenciesFrom(
             AddEachDev(package, items[i].name, items[i].constraint.items, 1,
                        env_python_version),
             items, i + 1, env_python_version)

\* lines 128-139
LoadDevDependencies(package, local_config, python_version) ==
    IF "dev-dependencies" \in local_config.keys
    THEN DevDependenciesFrom(package, local_config.dev_dependencies, 1,
                             VersionParse(python_version))
    ELSE package

\* lines 149-154: the position in requires of the first Dependency named as
\* req, 0 when there is none (the loop breaks at the first match)
RECURSIVE FirstMatch(_, _, _)
FirstMatch(requires, req, i) ==
    IF i > Len(requires) THEN 0
    ELSE IF requires[i].name = req.name THEN i
    ELSE FirstMatch(requires, req, i + 1)

\* lines 146-154: the requirements of one extra from position j on.  An
\* extra's list holds references to the objects in requires: their positions.
RECURSIVE RequirementsFrom(_, _, _, _)
RequirementsFrom(package, extra_name, requirements, j) ==
    IF j > Len(requirements) THEN package
    ELSE LET req == Dependency(requirements[j], Str("*"), "main")
             hit == FirstMatch(package.requires, req, 1)
         IN  IF hit = 0
             THEN RequirementsFrom(package, extra_name, requirements, j + 1)
             ELSE RequirementsFrom(
                      [package EXCEPT
                          !.requires[hit].in_extras = Append(@, extra_name),
                          !.extras[extra_name] = Append(@, hit)],
                      extra_name, requirements, j + 1)

\* lines 142-154: the extras from position i on
RECURSIVE ExtrasFrom(_, _, _)
ExtrasFrom(package, extras, i) ==
    IF i > Len(extras) THEN package
    ELSE LET extra_name == extras[i].name
             fresh == [package EXCEPT !.extras =
                          [e \in DOMAIN package.extras \cup {extra_name} |->
                              IF e = extra_name THEN <<>> ELSE package.extras[e]]]
         IN  ExtrasFrom(RequirementsFrom(fresh, extra_name, extras[i].requirements, 1),
                        extras, i + 1)

\* lines 141-154: local_config.get("extras", {})
LoadExtras(package, local_config) ==
    IF "extras" \in local_config.keys
    THEN ExtrasFrom(package, local_config.extras, 1)
    ELSE package

\* lines 83-170
LoadPackage(local_config, poetry_file, python_version) ==
    LoadExtras(
        LoadDevDependencies(
            LoadDependencies(BasePackage(local_config, poetry_file), local_config),
            local_config, python_version),
        local_config)

\* lines 128-129: Env.get(cwd) is consulted only for a dev-dependencies table
PackageLog(local_config, cwd) ==
    IF "dev-dependencies" \in local_config.keys
    THEN <<Event("env", Join(cwd, "python"))>>
    ELSE <<>>

(***************************************************************************)
(* Poetry.create, lines 172-180: the lock file.                            *)
(***************************************************************************)
\* line 173
LockPath(poetry_file) == Join(poetry_file.dir, "poetry.lock")

\* line 176
OldLockPath(poetry_file) == with_suffix(poetry_file, ".lock")

\* Variant of NeedsMove: the canonical file is not looked at.
NeedsMoveAlways(fsys, poetry_file) == exists(fsys, OldLockPath(poetry_file))

\* lines 174-177
NeedsMove(fsys, poetry_file) ==
    /\ ~exists(fsys, LockPath(poetry_file))
    /\ exists(fsys, OldLockPath(poetry_file))

\* Variant of move: the source stays.
copy(fsys, src, dst) ==
    [f \in DOMAIN fsys \cup {dst} |-> IF f = dst THEN fsys[src] ELSE fsys[f]]

\* shutil.move(src, dst) of a file (line 178)
move(fsys, src, dst) ==
    [f \in (DOMAIN fsys \ {src}) \cup {dst} |-> IF f = dst THEN fsys[src] ELSE fsys[f]]

\* lines 172-178: the filesystem after the step
MoveLock(fsys, poetry_file) ==
    IF NeedsMove(fsys, poetry_file)
    THEN move(fsys, OldLockPath(poetry_file), LockPath(poetry_file))
    ELSE fsys

\* lines 172-178: the accesses of the step
MoveLockLog(fsys, poetry_file) ==
    <<Event("exists", LockPath(poetry_file))>>
    \o (IF exists(fsys, LockPath(poetry_file)) THEN <<>>
        ELSE <<Event("exists", OldLockPath(poetry_file))>>)
    \o (IF NeedsMove(fsys, poetry_file)
        THEN <<[op |-> "move", file |-> OldLockPath(poetry_file),
                to |-> LockPath(poetry_file)]>>
        ELSE <<>>)

\* line 180: the lock file's path (the manifest snapshot the Locker also
\* keeps is the Poetry object's local_config)
Locker(lock, local_config) == [kind |-> "Locker", lock |-> lock]

(***************************************************************************)
(* Configuration.  A table is a function from its keys to nodes; a node is *)
(* a leaf with a value or a nested table.  Config.merge is modelled from   *)
(* the specification: recursive, the later source winning at the leaves.   *)
(***************************************************************************)
EmptyTable == <<>>

Leaf(v) == [leaf |-> TRUE, v |-> v, t |-> EmptyTable]

Nested(t) == [leaf |-> FALSE, v |-> 0, t |-> t]

RECURSIVE merge_dicts(_, _)
merge_dicts(d1, d2) ==
    [k \in DOMAIN d1 \cup DOMAIN d2 |->
        IF k \notin DOMAIN d2 THEN d1[k]
        ELSE IF k \in DOMAIN d1 /\ ~d1[k].leaf /\ ~d2[k].leaf
        THEN Nested(merge_dicts(d1[k].t, d2[k].t))
        ELSE d2[k]]

\* config.merge(data)
merge(config, data) == merge_dicts(config, data)

\* Config()
Config == EmptyTable

\* lines 184, 188, 193
GlobalConfigFile == Join(CONFIG_DIR, "config.toml")

LocalConfigFile(poetry_file) == Join(poetry_file.dir, "poetry.toml")

AuthConfigFile == Join(CONFIG_DIR, "auth.toml")

\* lines 185-186, 189-190, 194-195: merge the file if it exists
MergeIfExists(fsys, config, file) ==
    IF exists(fsys, file) THEN merge(config, fsys[file]) ELSE config

\* Variant of LoadConfig: the project-local file before the global one.
LoadConfigLocalFirst(fsys, poetry_file) ==
    MergeIfExists(fsys,
        MergeIfExists(fsys,
            MergeIfExists(fsys, Config, LocalConfigFile(poetry_file)),
            GlobalConfigFile),
        AuthConfigFile)

\* lines 182-195
LoadConfig(fsys, poetry_file) ==
    MergeIfExists(fsys,
        MergeIfExists(fsys,
            MergeIfExists(fsys, Config, GlobalConfigFile),
            LocalConfigFile(poetry_file)),
        AuthConfigFile)

\* the accesses of one config file: the probe, and the read if it exists
ReadIfExistsLog(fsys, file) ==
    <<Event("exists", file)>>
    \o (IF exists(fsys, file) THEN <<Event("read", file)>> ELSE <<>>)

\* lines 182-195: the accesses of the step
LoadConfigLog(fsys, poetry_file) ==
    ReadIfExistsLog(fsys, GlobalConfigFile)
    \o ReadIfExistsLog(fsys, LocalConfigFile(poetry_file))
    \o ReadIfExistsLog(fsys, AuthConfigFile)

(***************************************************************************)
(* Poetry.__init__ (lines 24-37) and Poetry.create (lines 63-197).         *)
(***************************************************************************)
Pool == [kind |-> "Pool", repositories |-> <<>>]

Poetry(file, local_config, package, locker, config) ==
    [kind |-> "Poetry", file |-> file, local_config |-> local_config,
     package |-> package, locker |-> locker, config |-> config, pool |-> Pool]

Raised(op, arg, error) == [op |-> op, arg |-> arg, raised |-> TRUE, error |-> error]

Returned(op, arg, value) == [op |-> op, arg |-> arg, raised |-> FALSE, value |-> value]

Create(cwd) ==
    LET found == locate(fs, cwd)
        poetry_file == found.poetry_file
    IN  IF ~found.found
        THEN \* lines 230-235
             /\ result' = Raised("create", cwd, RuntimeError(NotFoundMessage(cwd)))
             /\ log' = found.probes
             /\ UNCHANGED <<fs, env, poetry>>
        ELSE LET document == fs[poetry_file]
                 local_config == document.section
                 read == Append(found.probes, Event("read", poetry_file))
             IN  IF SectionMissing(document)
                 THEN \* lines 68-71
                      /\ result' = Raised("create", cwd,
                                          RuntimeError(SectionMessage(poetry_file)))
                      /\ log' = read
                      /\ UNCHANGED <<fs, env, poetry>>
                 ELSE LET check_result == check(local_config)
                          checked == Append(read, Event("validate", poetry_file))
                      IN  IF check_result.errors # <<>>
                          THEN \* lines 76-81
                               /\ result' = Raised("create", cwd,
                                      RuntimeError(InvalidMessage(check_result.errors)))
                               /\ log' = checked
                               /\ UNCHANGED <<fs, env, poetry>>
                          ELSE \* lines 83-197
                               LET package == LoadPackage(local_config, poetry_file, env)
                                   locker == Locker(LockPath(poetry_file), local_config)
                                   moved == MoveLock(fs, poetry_file)
                                   config == LoadConfig(moved, poetry_file)
                               IN  /\ fs' = moved
                                   /\ poetry' = Poetry(poetry_file, local_config,
                                                       package, locker, config)
                                   /\ result' = Returned("create", cwd, poetry_file)
                                   /\ log' = checked
                                             \o PackageLog(local_config, cwd)
                                             \o MoveLockLog(fs, poetry_file)
                                             \o LoadConfigLog(moved, poetry_file)
                                   /\ UNCHANGED env

(***************************************************************************)
(* Poetry.locate and Poetry.check called on their own.                     *)
(***************************************************************************)
Locate(cwd) ==
    LET found == locate(fs, cwd)
    IN  /\ result' = IF found.found
                     THEN Returned("locate", cwd, found.poetry_file)
                     ELSE Raised("locate", cwd, RuntimeError(NotFoundMessage(cwd)))
        /\ log' = found.probes
        /\ UNCHANGED <<fs, env, poetry>>

\* The configurations check is called with: the sections of the manifests.
Check(file) ==
    /\ exists(fs, file)
    /\ file.name = "pyproject.toml"
    /\ ~SectionMissing(fs[file])
    /\ result' = Returned("check", file, check(fs[file].section))
    /\ log' = <<Event("validate", file)>>
    /\ UNCHANGED <<fs, env, poetry>>

(***************************************************************************)
(* Poetry.create_legacy_repository (lines 199-217) and Poetry.set_config   *)
(* (lines 258-261).                                                        *)
(***************************************************************************)
\* get_http_basic_auth(config, name), modelled from the specification: the
\* pair stored under http-basic.<name>, the empty tuple when there is none.
get_http_basic_auth(config, name) ==
    IF /\ "http-basic" \in DOMAIN config
       /\ ~config["http-basic"].leaf
       /\ name \in DOMAIN config["http-basic"].t
       /\ ~config["http-basic"].t[name].leaf
       /\ {"username", "password"} \subseteq DOMAIN config["http-basic"].t[name].t
    THEN <<config["http-basic"].t[name].t["username"].v,
           config["http-basic"].t[name].t["password"].v>>
    ELSE <<>>

Auth(url, username, password) ==
    [kind |-> "Auth", url |-> url, username |-> username, password |-> password]

LegacyRepository(name, url, auth) ==
    [kind |-> "LegacyRepository", name |-> name, url |-> url, auth |-> auth]

\* Variant of SourceError: name is looked for before url.
SourceErrorNameFirst(source) ==
    IF "name" \notin source.keys THEN <<"Missing [name] in source.">>
    ELSE IF "url" \notin source.keys THEN <<"Unsupported source specified">>
    ELSE <<>>

\* lines 202-207: the message of the error raised, empty when none is
SourceError(source) ==
    IF "url" \in source.keys
    THEN (IF "name" \notin source.keys THEN <<"Missing [name] in source.">> ELSE <<>>)
    ELSE <<"Unsupported source specified">>

\* lines 209-217
Repository(config, source) ==
    LET name == source.name
        url == source.url
        credentials == get_http_basic_auth(config, name)
    IN  IF credentials = <<>>
        THEN LegacyRepository(name, url, None)
        ELSE LegacyRepository(name, url, Auth(url, credentials[1], credentials[2]))

CreateLegacyRepository(source) ==
    /\ poetry # None
    /\ result' = IF SourceError(source) # <<>>
                 THEN Raised("create_legacy_repository", source,
                             RuntimeError(SourceError(source)))
                 ELSE Returned("create_legacy_repository", source,
                               Repository(poetry.config, source))
    /\ log' = <<>>
    /\ UNCHANGED <<fs, env, poetry>>

SetConfig(config) ==
    /\ poetry # None
    /\ poetry' = [poetry EXCEPT !.config = config]
    /\ result' = Returned("set_config", config, "self")
    /\ log' = <<>>
    /\ UNCHANGED <<fs, env>>

(***************************************************************************)
(* The inputs: the manifests, lock files and configuration files the       *)
(* initial filesystem is drawn from, and the arguments of the calls.       *)
(***************************************************************************)
SeqsUpTo(S, n) == UNION {[1..k -> S] : k \in 0..n}

Required == {"name", "version", "authors"}

\* A [tool.poetry] section with the given keys; a table key is present
\* exactly when listed in keys.
Section(keys, dependencies, dev_dependencies, extras) ==
    [keys |-> keys, name |-> "demo", version |-> "1.0", authors |-> <<"Ann <ann@x>">>,
     dependencies |-> dependencies, dev_dependencies |-> dev_dependencies,
     extras |-> extras]

TableKeys(dependencies, dev_dependencies, extras) ==
    (IF dependencies = <<>> THEN {} ELSE {"dependencies"})
    \cup (IF dev_dependencies = <<>> THEN {} ELSE {"dev-dependencies"})
    \cup (IF extras = <<>> THEN {} ELSE {"extras"})

ValidDocument(dependencies, dev_dependencies, extras) ==
    [tool |-> TRUE, poetry |-> TRUE,
     section |-> Section(Required \cup TableKeys(dependencies, dev_dependencies, extras),
                         dependencies, dev_dependencies, extras)]

Entry(name, constraint) == [name |-> name, constraint |-> constraint]

Extra(name, requirements) == [name |-> name, requirements |-> requirements]

Plain == Str("^1.0")
Inline == Table({"version"}, "^2.0", "")
Py2Only == Table({"version", "python"}, "^1.0", "<3.0")
Py3Only == Table({"version", "python"}, "^3.0", ">=3.0")

Atoms == {Plain, Inline, Py2Only}

\* The constraints an entry of the given name takes in the tables drawn.
Constraints(name) ==
    CASE name = "foo" ->
            {Scalar(c) : c \in Atoms}
            \cup {List(cs) : cs \in SeqsUpTo(Atoms, MaxList) \ {<<>>}}
      [] name = "bar" -> {Scalar(Plain), Scalar(Py2Only)}
      [] OTHER -> {Scalar(Str("^3.6"))}

Entries(names) == UNION {{Entry(n, c) : c \in Constraints(n)} : n \in names}

DistinctNames(items) ==
    \A i, j \in 1..Len(items) : items[i].name = items[j].name => i = j

\* The dependency tables drawn: up to MaxEntries entries, their names distinct.
DependencyTables ==
    {t \in SeqsUpTo(Entries({"foo", "bar", "Python"}), MaxEntries) : DistinctNames(t)}

ReqNames == {"foo", "bar", "missing"}

\* The extras tables drawn: none, "feature", or "feature" and "full".
ExtrasTables ==
    {<<>>}
    \cup {<<Extra("feature", r)>> : r \in SeqsUpTo(ReqNames, MaxReqs)}
    \cup {<<Extra("feature", r), Extra("full", q)>> :
             r \in SeqsUpTo(ReqNames, MaxReqs), q \in SeqsUpTo(ReqNames, 1)}

\* The manifests drawn: without the section, failing validation, and valid
\* ones in which one table ranges over its family and the others over samples.
SectionlessDocuments ==
    {[tool |-> t, poetry |-> FALSE,
      section |-> Section({}, <<>>, <<>>, <<>>)] : t \in BOOLEAN}

InvalidDocuments ==
    {[tool |-> TRUE, poetry |-> TRUE,
      section |-> Section(keys \cup TableKeys(d, <<>>, <<>>), d, <<>>, <<>>)] :
        keys \in (SUBSET Required) \ {Required}, d \in {<<>>, <<Entry("foo", Scalar(Plain))>>}}

MainSample ==
    <<Entry("foo", List(<<Plain, Py2Only>>)), Entry("python", Scalar(Str("^3.6")))>>

DevSample ==
    <<Entry("foo", Scalar(Py2Only)), Entry("bar", List(<<Py3Only, Plain>>))>>

ExtrasSample ==
    <<Extra("feature", <<"foo", "bar">>), Extra("full", <<"missing">>)>>

ValidDocuments ==
    {ValidDocument(d, DevSample, ExtrasSample) : d \in DependencyTables}
    \cup {ValidDocument(MainSample, v, ExtrasSample) : v \in DependencyTables}
    \cup {ValidDocument(MainSample, DevSample, e) : e \in ExtrasTables}

SimpleDocument ==
    ValidDocument(<<Entry("foo", Scalar(Plain))>>, <<>>, <<>>)

\* Configuration tables.  Every leaf of a file carries the number of its
\* source (1 global, 2 local, 3 auth), so a merged leaf tells where it is from.
Subtables(v, keys) == {[k \in ks |-> Leaf(v)] : ks \in SUBSET keys}

Credentials(username, password) ==
    Nested([k \in {"username", "password"} |->
               IF k = "username" THEN Leaf(username) ELSE Leaf(password)])

HttpBasic(name, v) ==
    [k \in {"http-basic"} |-> Nested([n \in {name} |-> Credentials(10 * v + 1, 10 * v + 2)])]

\* A table over the keys a and b: a absent or a leaf, b absent, a leaf or a
\* nested table over x and y.
SettingsTables(v) ==
    LET nodes == {Leaf(v)} \cup {Nested(t) : t \in Subtables(v, {"x", "y"})}
    IN  UNION {{t \in [ks -> nodes] : "a" \in ks => t["a"].leaf} :
                  ks \in SUBSET {"a", "b"}}

GlobalTables ==
    SettingsTables(1)
    \cup {HttpBasic("private", 1),
          merge_dicts([k \in {"a"} |-> Leaf(1)], HttpBasic("private", 1))}

LocalTables == SettingsTables(2)

AuthTables ==
    {HttpBasic("private", 3),
     [k \in {"a"} |-> Leaf(3)],
     [k \in {"b"} |-> Nested([s \in {"y"} |-> Leaf(3)])],
     merge_dicts(HttpBasic("other", 3), [k \in {"b"} |-> Leaf(3)])}

RepoNames == {"private", "other"}

Sources ==
    {[keys |-> ks,
      name |-> IF "name" \in ks THEN n ELSE "",
      url |-> IF "url" \in ks THEN "https://x" ELSE ""] :
        ks \in SUBSET {"name", "url"}, n \in RepoNames}

\* A filesystem: the same content at each of the files.
FilesWith(files, content) == [f \in files |-> content]

NoFiles == FilesWith({}, "")

OptionalFile(file, contents) ==
    {NoFiles} \cup {FilesWith({file}, c) : c \in contents}

ProjectDir == <<"a">>

(***************************************************************************)
(* The initial states and the next-state relation.                         *)
(***************************************************************************)
NoCall == [op |-> "none", arg |-> <<>>, raised |-> FALSE, value |-> <<>>]

ManifestFile(dir) == Join(dir, "pyproject.toml")

\* Before any call: no Poetry object, nothing returned, nothing accessed.
Fresh ==
    /\ poetry = None
    /\ result = NoCall
    /\ log = <<>>

\* Up to MaxManifests directories hold a (valid) manifest; they all have or
\* all lack a canonical lock file, and likewise a legacy lock file.
InitFiles ==
    /\ \E M \in SUBSET Dirs :
         /\ Cardinality(M) <= MaxManifests
         /\ \E canonical \in {{}, M}, legacy \in {{}, M} :
              fs = FilesWith({ManifestFile(d) : d \in M}, SimpleDocument)
                   @@ FilesWith({Join(d, "poetry.lock") : d \in canonical}, "locked by poetry")
                   @@ FilesWith({Join(d, "pyproject.lock") : d \in legacy}, "locked by an old poetry")
                   @@ FilesWith({AuthConfigFile}, HttpBasic("private", 3))
    /\ env = "3.9"
    /\ Fresh

\* One manifest, in ProjectDir, ranging over the manifests drawn, beside a
\* legacy lock file; the host runs Python 2.7 or 3.9.
InitManifest ==
    /\ \E document \in SectionlessDocuments \cup InvalidDocuments \cup ValidDocuments :
         fs = FilesWith({ManifestFile(ProjectDir)}, document)
              @@ FilesWith({Join(ProjectDir, "pyproject.lock")}, "locked by an old poetry")
              @@ FilesWith({AuthConfigFile}, HttpBasic("private", 3))
    /\ env \in {"2.7", "3.9"}
    /\ Fresh

\* One valid manifest, in ProjectDir; each of the three configuration files
\* is absent or ranges over the tables drawn for it.
InitConfig ==
    /\ \E g \in OptionalFile(GlobalConfigFile, GlobalTables),
          l \in OptionalFile(Join(ProjectDir, "poetry.toml"), LocalTables),
          a \in OptionalFile(AuthConfigFile, AuthTables) :
         fs = FilesWith({ManifestFile(ProjectDir)}, SimpleDocument) @@ g @@ l @@ a
    /\ env = "3.9"
    /\ Fresh

\* The calls of the program, their arguments drawn from the given sets.
Calls(cwds, sources, configs) ==
    \/ \E cwd \in cwds : Create(cwd)
    \/ \E cwd \in cwds : Locate(cwd)
    \/ \E file \in DOMAIN fs : Check(file)
    \/ \E source \in sources : CreateLegacyRepository(source)
    \/ \E config \in configs : SetConfig(config)

PrivateSource == [keys |-> {"name", "url"}, name |-> "private", url |-> "https://x"]

NextFiles == Calls(Dirs, {PrivateSource}, {EmptyTable})

NextManifest == Calls({RootDir, ProjectDir}, {PrivateSource}, {EmptyTable})

NextConfig == Calls({ProjectDir}, Sources, {HttpBasic("other", 4)})

SpecFiles == InitFiles /\ [][NextFiles]_vars

SpecManifest == InitManifest /\ [][NextManifest]_vars

SpecConfig == InitConfig /\ [][NextConfig]_vars

(***************************************************************************)
(* Properties.                                                             *)
(***************************************************************************)
\* The last call was a create that returned a Poetry object.
Created == result.op = "create" /\ ~result.raised

\* The last call was a create that raised an error with this message.
CreateRaised(message) ==
    result.op = "create" /\ result.raised /\ result.error = RuntimeError(message)

\* The manifest a create call from cwd reads, when there is one.
ManifestOf(cwd) == locate(fs, cwd).poetry_file

Reads(cwd) == locate(fs, cwd).found

NoMove(events) == \A i \in DOMAIN events : events[i].op # "move"

LegacyLock(file) == Join(file.dir, "pyproject.lock")

CanonicalLock(file) == Join(file.dir, "poetry.lock")

\* C1: a create call that starts with the canonical lock file (poetry.lock
\* next to the manifest it locates) present performs no rename and leaves
\* every file as it was: the canonical lock file keeps its contents, and the
\* legacy lock file is present after the call exactly if it was before, with
\* the same contents.  Stated of every step, so after any sequence of calls.
C1_CanonicalLockUntouched ==
    [][(result'.op = "create" /\ Reads(result'.arg)
            /\ exists(fs, CanonicalLock(ManifestOf(result'.arg))))
        => LET lock == CanonicalLock(ManifestOf(result'.arg))
               old_lock == LegacyLock(ManifestOf(result'.arg))
           IN  /\ NoMove(log')
               /\ fs' = fs
               /\ exists(fs', lock) /\ fs'[lock] = fs[lock]
               /\ exists(fs', old_lock) = exists(fs, old_lock)
               /\ exists(fs, old_lock) => fs'[old_lock] = fs[old_lock]]_vars

\* C1 witness: a create has returned and both lock files lie beside the
\* manifest, so the call started with both and renamed nothing.
C1_Witness ==
    /\ Created
    /\ exists(fs, CanonicalLock(result.value))
    /\ exists(fs, LegacyLock(result.value))
    /\ fs[CanonicalLock(result.value)] # fs[LegacyLock(result.value)]

\* C2: a create call that returns and started with the canonical lock file
\* absent and the legacy one present leaves the canonical file with the legacy
\* file's former contents and no legacy file; and a create call made directly
\* after a create that returned, locating the same manifest, changes no file.
C2_LegacyLockMoved ==
    [][/\ (result'.op = "create" /\ ~result'.raised
              /\ ~exists(fs, CanonicalLock(result'.value))
              /\ exists(fs, LegacyLock(result'.value)))
          => /\ exists(fs', CanonicalLock(result'.value))
             /\ fs'[CanonicalLock(result'.value)] = fs[LegacyLock(result'.value)]
             /\ ~exists(fs', LegacyLock(result'.value))
       /\ (Created /\ result'.op = "create" /\ ~result'.raised
              /\ result'.value = result.value)
          => fs' = fs /\ NoMove(log')]_vars

\* C2 witness: a create has returned after moving the legacy lock file: the
\* canonical file holds the legacy contents and the legacy file is gone.
C2_Witness ==
    /\ Created
    /\ \E i \in DOMAIN log : log[i].op = "move"
    /\ exists(fs, CanonicalLock(result.value))
    /\ fs[CanonicalLock(result.value)] = "locked by an old poetry"
    /\ ~exists(fs, LegacyLock(result.value))

\* C3: when the manifest create reads lacks "tool", or "poetry" inside it,
\* create raises the section-missing error; its only accesses are the probes
\* for the manifest and the one read of it (no validation, no rename, no
\* configuration file), the legacy lock file stays where it was and no Poetry
\* object exists.
C3_SectionMissing ==
    (result.op = "create" /\ Reads(result.arg)
        /\ (~fs[ManifestOf(result.arg)].tool \/ ~fs[ManifestOf(result.arg)].poetry))
    => /\ CreateRaised(<<"[tool.poetry] section not found in ", "pyproject.toml">>)
       /\ \A i \in DOMAIN log :
            /\ log[i].file.name = "pyproject.toml"
            /\ log[i].op = (IF i = Len(log) THEN "read" ELSE "exists")
       /\ log # <<>>
       /\ exists(fs, LegacyLock(ManifestOf(result.arg)))
       /\ ~exists(fs, CanonicalLock(ManifestOf(result.arg)))
       /\ poetry = None

\* C3 witness: create has raised the section-missing error on a manifest that
\* has the tool table but no poetry table in it.
C3_Witness ==
    /\ CreateRaised(<<"[tool.poetry] section not found in ", "pyproject.toml">>)
    /\ fs[ManifestOf(result.arg)].tool
    /\ ~fs[ManifestOf(result.arg)].poetry

\* C4: when validation of the section returns errors, create raises an error
\* whose message is the heading followed by one line per error, every error
\* once and in the order returned; nothing after validation is accessed (no
\* environment, no lock file, no configuration) and no Poetry object exists.
C4_EveryValidationError ==
    (result.op = "create" /\ Reads(result.arg)
        /\ fs[ManifestOf(result.arg)].tool /\ fs[ManifestOf(result.arg)].poetry
        /\ validate_object(fs[ManifestOf(result.arg)].section) # <<>>)
    => LET errors == validate_object(fs[ManifestOf(result.arg)].section)
       IN  /\ result.raised
           /\ result.error.kind = "RuntimeError"
           /\ Len(result.error.message) = 1 + 3 * Len(errors)
           /\ result.error.message[1] = "The Poetry configuration is invalid:\n"
           /\ \A i \in 1..Len(errors) :
                /\ result.error.message[3 * i - 1] = "  - "
                /\ result.error.message[3 * i] = errors[i]
                /\ result.error.message[3 * i + 1] = "\n"
           /\ log[Len(log)].op = "validate"
           /\ \A i \in 1..(Len(log) - 1) : log[i].op \in {"exists", "read"}
           /\ poetry = None

\* C4 witness: create has raised the invalid-manifest error for a manifest
\* with more than one validation error.
C4_Witness ==
    /\ result.op = "create" /\ result.raised
    /\ result.error.message[1] = "The Poetry configuration is invalid:\n"
    /\ Len(result.error.message) >= 7

\* The tables of the section the returned Poetry object was built from.
Declared(key, table) ==
    IF key \in poetry.local_config.keys THEN table ELSE <<>>

DeclaredDev == Declared("dev-dependencies", poetry.local_config.dev_dependencies)

DeclaredExtras == Declared("extras", poetry.local_config.extras)

\* C5: after a create that returns, no Dependency of the package's requires
\* has a name that lower-cases to "python", whichever table declared it.
C5_NoPythonDependency ==
    Created =>
        \A i \in DOMAIN poetry.package.requires :
            Lower(poetry.package.requires[i].name) # "python"

\* The positions in requires of the Dependencies named n, ascending.
Matches(requires, n) ==
    SelectSeq([i \in 1..Len(requires) |-> i], LAMBDA i : requires[i].name = n)

RECURSIVE AllMatches(_, _, _)
AllMatches(requires, names, j) ==
    IF j > Len(names) THEN <<>>
    ELSE Matches(requires, names[j]) \o AllMatches(requires, names, j + 1)

\* The extras that list name n, once per listing, in declared order.
RECURSIVE ListingsOf(_, _, _)
ListingsOf(extras, n, k) ==
    IF k > Len(extras) THEN <<>>
    ELSE LET hits == SelectSeq(extras[k].requirements, LAMBDA r : r = n)
         IN  [j \in 1..Len(hits) |-> extras[k].name] \o ListingsOf(extras, n, k + 1)

\* C6: after a create that returns, the package has exactly the declared
\* extras; extras[e] holds, for each name listed under e in declared order,
\* every Dependency of requires with that name (all of them when several share
\* the name), so only objects of requires and none for a name without a match;
\* and each Dependency's in_extras holds e once per such listing.
C6_EveryMatchInExtra ==
    Created =>
        /\ DOMAIN poetry.package.extras
              = {DeclaredExtras[k].name : k \in DOMAIN DeclaredExtras}
        /\ \A k \in DOMAIN DeclaredExtras :
              poetry.package.extras[DeclaredExtras[k].name]
                  = AllMatches(poetry.package.requires, DeclaredExtras[k].requirements, 1)
        /\ \A i \in DOMAIN poetry.package.requires :
              poetry.package.requires[i].in_extras
                  = ListingsOf(DeclaredExtras, poetry.package.requires[i].name, 1)

\* The constraints of a dependency table, one per scalar entry and one per
\* element of a list-valued entry, in declared order.
RECURSIVE Flatten(_, _)
Flatten(items, i) ==
    IF i > Len(items) THEN <<>>
    ELSE [j \in 1..Len(items[i].constraint.items) |->
             [name |-> items[i].name, constraint |-> items[i].constraint.items[j]]]
         \o Flatten(items, i + 1)

\* Whether the host's Python version satisfies the python sub-constraint.
HostSatisfies(python) ==
    CASE python = "<3.0" -> env = "2.7"
      [] python = ">=3.0" -> env = "3.9"

HostAdmits(entry) ==
    "python" \in entry.constraint.keys => HostSatisfies(entry.constraint.python)

\* The name and constraint of the Dependencies of a category, in order.
OfCategory(requires, category) ==
    LET chosen == SelectSeq(requires, LAMBDA dep : dep.category = category)
    IN  [i \in 1..Len(chosen) |->
            [name |-> chosen[i].name, constraint |-> chosen[i].constraint]]

\* C7: after a create that returns, the Dependencies of category "dev" are
\* the dev-dependencies constraints (a scalar entry, or each element of a
\* list-valued one) whose python sub-constraint, if any, the host's Python
\* version satisfies, each once and in declared order; so {python: "<3.0"}
\* is left out on Python 3.9 and kept on 2.7.
C7_DevDependenciesFiltered ==
    Created =>
        OfCategory(poetry.package.requires, "dev")
            = SelectSeq(Flatten(DeclaredDev, 1), HostAdmits)

\* C7 witness: on Python 3.9 a create has returned for a manifest whose
\* dev-dependencies hold a {python: "<3.0"} entry, which is not in requires,
\* beside one that is.
C7_Witness ==
    /\ Created
    /\ env = "3.9"
    /\ \E i \in DOMAIN Flatten(DeclaredDev, 1) :
         Flatten(DeclaredDev, 1)[i].constraint = Py2Only
    /\ \A i \in DOMAIN poetry.package.requires :
         poetry.package.requires[i].category = "dev"
             => poetry.package.requires[i].constraint # Py2Only
    /\ \E i \in DOMAIN poetry.package.requires :
         poetry.package.requires[i].category = "dev"

\* The tables of the configuration files that exist, in the order global
\* settings, project-local settings, global authentication.
ConfigFiles(poetry_file) ==
    SelectSeq(<<GlobalConfigFile, LocalConfigFile(poetry_file), AuthConfigFile>>,
              LAMBDA file : exists(fs, file))

\* The overlay of tables given from the earliest to the latest source: at a
\* key the latest source wins, except that the nested tables of consecutive
\* latest sources are overlaid in turn.
RECURSIVE Overlay(_)
Overlay(tables) ==
    [k \in UNION {DOMAIN tables[i] : i \in DOMAIN tables} |->
        LET having == SelectSeq(tables, LAMBDA t : k \in DOMAIN t)
            n == Len(having)
            start == CHOOSE j \in 1..n :
                        /\ \A i \in j..n : ~having[i][k].leaf
                        /\ j > 1 => having[j - 1][k].leaf
        IN  IF having[n][k].leaf THEN having[n][k]
            ELSE Nested(Overlay([i \in 1..(n - start + 1) |-> having[start + i - 1][k].t]))]

\* C8: after a create that returns, the configuration is the overlay, on an
\* empty configuration, of the files that exist, in the order global, local,
\* auth, whatever configuration the caller held before; exactly the files
\* that exist are read, in that order; and global {a: 1, b: {x: 1}} with local
\* {b: {y: 2}} and no auth file give {a: 1, b: {x: 1, y: 2}}.
C8_ConfigurationLayers ==
    Created =>
        LET files == ConfigFiles(result.value)
            reads == SelectSeq(log, LAMBDA e : e.op = "read" /\ e.file.name # "pyproject.toml")
        IN  /\ poetry.config = Overlay([i \in 1..Len(files) |-> fs[files[i]]])
            /\ reads = [i \in 1..Len(files) |-> Event("read", files[i])]
            /\ (/\ files = <<GlobalConfigFile, LocalConfigFile(result.value)>>
                /\ fs[GlobalConfigFile]
                      = [k \in {"a", "b"} |->
                            IF k = "a" THEN Leaf(1) ELSE Nested([s \in {"x"} |-> Leaf(1)])]
                /\ fs[LocalConfigFile(result.value)]
                      = [k \in {"b"} |-> Nested([s \in {"y"} |-> Leaf(2)])])
               => poetry.config
                      = [k \in {"a", "b"} |->
                            IF k = "a" THEN Leaf(1)
                            ELSE Nested([s \in {"x", "y"} |->
                                            IF s = "x" THEN Leaf(1) ELSE Leaf(2)])]

\* C8 witness: a create has returned with all three files present, the global
\* and the local one both setting a, and the configuration holds the local a.
C8_Witness ==
    /\ Created
    /\ Len(ConfigFiles(result.value)) = 3
    /\ "a" \in DOMAIN fs[GlobalConfigFile]
    /\ "a" \in DOMAIN fs[LocalConfigFile(result.value)]
    /\ "a" \notin DOMAIN fs[AuthConfigFile]
    /\ "b" \in DOMAIN fs[AuthConfigFile]
    /\ poetry.config["a"] = Leaf(2)
    /\ ~poetry.config["b"].leaf

\* C9: locate examines the starting directory and then its ancestors from the
\* nearest to the root, stopping at the first that holds the manifest, whose
\* path it returns even when a farther ancestor holds one too; it raises the
\* not-found error exactly when none of them holds it.
C9_NearestManifest ==
    result.op = "locate" =>
        LET cwd == result.arg
            up(k) == SubSeq(cwd, 1, Len(cwd) - k)     \* the k-th ancestor; cwd when k = 0
            holders == {k \in 0..Len(cwd) : exists(fs, ManifestFile(up(k)))}
            nearest == CHOOSE k \in holders : \A j \in holders : k <= j
        IN  /\ result.raised = (holders = {})
            /\ result.raised =>
                 /\ result.error = RuntimeError(
                        <<"Poetry could not find a pyproject.toml file in ", cwd,
                          " or its parents">>)
                 /\ Len(log) = Len(cwd) + 1
            /\ ~result.raised =>
                 /\ result.value = ManifestFile(up(nearest))
                 /\ Len(log) = nearest + 1
            /\ \A i \in DOMAIN log : log[i] = Event("exists", ManifestFile(up(i - 1)))

\* C9 witness: locate has returned the manifest of a proper ancestor of the
\* starting directory while the root, farther up, holds a manifest too.
C9_Witness ==
    /\ result.op = "locate" /\ ~result.raised
    /\ result.value.dir # result.arg
    /\ result.value.dir # RootDir
    /\ exists(fs, ManifestFile(RootDir))

\* The HTTP-basic credential stored for name in a configuration.
Stored(config, name) ==
    /\ "http-basic" \in DOMAIN config
    /\ ~config["http-basic"].leaf
    /\ name \in DOMAIN config["http-basic"].t

\* C10: create_legacy_repository raises the unsupported-source error when url
\* is absent (with or without name) and the missing-name error when url is
\* present and name is absent; otherwise it returns a handle for (name, url),
\* without authentication when the configuration stores no HTTP-basic
\* credential for name and with exactly the stored username and password when
\* it does; the call changes neither the Poetry object (its configuration,
\* its package) nor any file.
C10_LegacyRepository ==
    [][result'.op = "create_legacy_repository" =>
        LET source == result'.arg
            config == poetry.config
        IN  /\ poetry' = poetry
            /\ fs' = fs
            /\ "url" \notin source.keys =>
                 /\ result'.raised
                 /\ result'.error = RuntimeError(<<"Unsupported source specified">>)
            /\ ("url" \in source.keys /\ "name" \notin source.keys) =>
                 /\ result'.raised
                 /\ result'.error = RuntimeError(<<"Missing [name] in source.">>)
            /\ {"url", "name"} \subseteq source.keys =>
                 /\ ~result'.raised
                 /\ result'.value.name = source.name
                 /\ result'.value.url = source.url
                 /\ ~Stored(config, source.name) => result'.value.auth = None
                 /\ Stored(config, source.name) =>
                      result'.value.auth
                          = [kind |-> "Auth", url |-> source.url,
                             username |-> config["http-basic"].t[source.name].t["username"].v,
                             password |-> config["http-basic"].t[source.name].t["password"].v]]_vars

\* C10 witness: a handle has been returned that carries the credential the
\* authentication file stores for the source's name.
C10_Witness ==
    /\ result.op = "create_legacy_repository" /\ ~result.raised
    /\ result.value.auth # None
    /\ result.value.auth.username = 31
    /\ result.value.auth.password = 32
    /\ Stored(fs[AuthConfigFile], result.arg.name)

====
